---- MODULE Spec2Model ----
(***************************************************************************)
(* ipc-watcher: a single-writer / multi-reader change notification over a  *)
(* shared memory region.  The region holds a one-byte Tick, the metadata   *)
(* of a cross-process reader-writer lock, and the payload of type T.       *)
(*                                                                         *)
(*   src/src/lib.rs     Watched (publisher), Watcher (observer)            *)
(*   src/src/tick.rs    Tick                                               *)
(*   src/src/shared.rs  Shared (layout and capacity check)                 *)
(*                                                                         *)
(* The handles are used from different processes, so every memory access   *)
(* of an operation is a step of its own: write is lock, copy the payload   *)
(* byte by byte, fetch_add on the Tick, unlock; read is rlock, the closure *)
(* looking at the payload byte by byte, unlock.                            *)
(***************************************************************************)
EXTENDS Integers, Sequences, FiniteSets, TLC

(* ------------------------------ bounds -------------------------------- *)

\* number of observers (Watcher handles)
NObs == 2
\* number of distinct values of T the publisher writes
NValues == 2
\* size_of::<T>() in bytes
PayloadLen == 2
\* writes per publisher handle in Spec
MaxWrites == 2
\* publisher handles created one after the other over the region in SpecLife
MaxCreates == 2
\* writes of the publisher in SpecWrap (two wrap-arounds of the version)
WrapWrites == 257
\* largest region capacity tried in SpecCap
MaxMem == 70

(* ------------------------- program constants -------------------------- *)

\* lib.rs:37, tick.rs:11   const TICK: u8 = 1 << 1
TICK == 2
\* the Tick is an AtomicU8: all arithmetic on it wraps at 2^8
U8 == 256
\* size of a pointer on the 64-bit targets the crate is built for
PtrSize == 8
\* lib.rs:50   mem::size_of::<AtomicU8>()
AtomicSize == 1
\* RwLock::size_of(Some(ptr)): the metadata of the external lock
\* (a pthread_rwlock_t on 64-bit Linux)
LockSize == 56

Observers == 1..NObs
Values == 1..NValues

\* The byte representation of the value v of T: PayloadLen bytes, so that a
\* payload holding bytes of two values is no value's representation.
ValueBytes(v) == [i \in 1..PayloadLen |-> v]

\* A freshly created segment is zero-filled.
ZeroPayload == [i \in 1..PayloadLen |-> 0]

VARIABLES
    mem_len,    \* Shmem::len(): the capacity N of the region
    tick,       \* the shared Tick byte at offset 0
    payload,    \* the payload bytes behind the lock
    lock_w,     \* the lock is held in exclusive mode
    lock_r,     \* the observers holding the lock in shared mode
    watched,    \* the publisher: handle state and position inside write/drop
    watcher,    \* per observer: handle state, Watcher::tick, position in read
    ret,        \* per observer: what its last call returned (none while it reads)
    ncreated,   \* history: publisher handles constructed so far
    nticks,     \* history: Tick increments of the current publisher handle
    last,       \* history: value of the last write that released the lock (0: none)
    polled,     \* history, per observer: nticks when it last loaded the Tick (0: never)
    dirty,      \* history, per observer: a close or a Tick reset since its last poll
    late        \* history, per observer: it attached to a closed region

vars == <<mem_len, tick, payload, lock_w, lock_r, watched, watcher, ret,
          ncreated, nticks, last, polled, dirty, late>>

hist == <<ncreated, nticks, last, polled, dirty, late>>

(* ------------------------------- Tick ---------------------------------- *)

\* bit 0 of the Tick byte
Closed(b) == b % 2 = 1

\* bits 1-7 of the Tick byte
Version(b) == b \div 2

\* faulty variant: the increment hits bit 0, the closed flag (TICK = 1 << 0)
Tick_tick_bit0(b) == (b + 1) % U8

\* faulty variant: the counter is wider than a byte and does not wrap at 2^8
Tick_tick_wide(b) == (b + TICK) % (U8 * U8)

\* Tick::tick / the fetch_add in Watched::write: wrapping add on a u8
Tick_tick(b) == (b + TICK) % U8

\* Tick::try_get: an Option<u8> as a set, None ({}) when bit 0 is set
Tick_try_get(b) == IF b % 2 = 1 THEN {} ELSE {b}

\* faulty variant: close stores the bare flag and loses the version
Tick_close_flag(val) == 1

\* Tick::close, the value it stores: val | 1 for the val try_get returned
Tick_close(val) == IF val % 2 = 1 THEN val ELSE val + 1

(* ------------------------------ Shared --------------------------------- *)

\* mem::size_of::<Shared<T>>(): Tick is one reference, Box<dyn LockImpl> is
\* a fat pointer, PhantomData<T> has no size
SharedStructSize == PtrSize + 2 * PtrSize + 0

\* Tick::from_ptr, the size it returns: mem::size_of::<Self>(), and Self is
\* the transparent wrapper of a reference to the AtomicU8
Tick_from_ptr_size == PtrSize

\* Shared::from_mem, the offsets of its handle: the Tick at the region's
\* start, ptr.add(size) for the lock, data_off bytes further the payload
Shared_layout ==
    [tick |-> 0, lock |-> Tick_from_ptr_size, data |-> Tick_from_ptr_size + LockSize]

\* Watched::new_in_shared and Watcher::new_in_shared, their offsets: the
\* Tick at the region's start, ptr.add(atomic_size) for the lock, and
\* RwLock::size_of bytes further the payload
Watched_layout ==
    [tick |-> 0, lock |-> AtomicSize, data |-> AtomicSize + LockSize]

\* what the region has to hold: Tick, lock metadata, payload
Needed == 1 + LockSize + PayloadLen

\* Shared::from_mem, its assertion: shared_size <= mem_size
Shared_from_mem(n) == SharedStructSize <= n

(* ------------------------------- lock ---------------------------------- *)

\* faulty variant: write takes the lock as a reader would (rlock for lock)
CanLock_shared == ~lock_w

\* LockImpl::lock returns once nobody holds the lock
CanLock == ~lock_w /\ lock_r = {}

\* faulty variant: the lock is a mutex, a reader waits for other readers
CanRLock_exclusive == ~lock_w /\ lock_r = {}

\* faulty variant: read does not wait for the writer
CanRLock_nowait == TRUE

\* LockImpl::rlock returns once no writer holds the lock
CanRLock == ~lock_w

(* ------------------------------- Init ---------------------------------- *)

\* what a call returned: op is the call, val its result
\* For has_changed also the history at the call: n classifies the Tick
\* increments since the observer's previous load of the Tick, d tells of a
\* close or a Tick reset since then.  The closure of the model returns (),
\* as the closures of the test and of examples/watcher.rs do.
NoRet == [op |-> "none", val |-> 0]
HasChangedRet(b, n, d) == [op |-> "has_changed", val |-> b, n |-> n, dirty |-> d]
ReadRet == [op |-> "read", val |-> 0]
\* a call that left by unwinding
PanicRet == [op |-> "panic", val |-> 0]

NoWatcher == [st |-> "none", tick |-> 0, pc |-> "idle", idx |-> 0, buf |-> <<>>]

InitRegion(n) ==
    /\ mem_len = n
    /\ tick = 0
    /\ payload = ZeroPayload
    /\ lock_w = FALSE
    /\ lock_r = {}
    /\ watched = [st |-> "none", pc |-> "idle", val |-> 0, idx |-> 0]
    /\ watcher = [o \in Observers |-> NoWatcher]
    /\ ret = [o \in Observers |-> NoRet]
    /\ ncreated = 0
    /\ nticks = 0
    /\ last = 0
    /\ polled = [o \in Observers |-> 0]
    /\ dirty = [o \in Observers |-> FALSE]
    /\ late = [o \in Observers |-> FALSE]

\* a region big enough for the layout, no handle over it yet
Init == InitRegion(Needed)

(* ------------------------- Watched (publisher) ------------------------- *)

\* faulty variant: the constructor reopens the Tick and keeps its version
WatchedCreated_reopen ==
    /\ tick' = tick - (tick % 2)
    /\ lock_w' = FALSE
    /\ lock_r' = {}
    /\ watched' = [st |-> "alive", pc |-> "idle", val |-> 0, idx |-> 0]
    /\ ncreated' = ncreated + 1
    /\ nticks' = 0
    /\ dirty' = [o \in Observers |-> IF watcher[o].st = "attached" THEN TRUE ELSE dirty[o]]
    /\ polled' = [o \in Observers |-> 0]
    /\ UNCHANGED <<mem_len, payload, watcher, ret, last, late>>

\* The effect of constructing a publisher handle that the two constructors
\* share: tick.store(0), RwLock::new, the handle comes to life.
WatchedCreated ==
    /\ tick' = 0
    /\ lock_w' = FALSE
    /\ lock_r' = {}
    /\ watched' = [st |-> "alive", pc |-> "idle", val |-> 0, idx |-> 0]
    /\ ncreated' = ncreated + 1
    /\ nticks' = 0
    /\ dirty' = [o \in Observers |-> IF watcher[o].st = "attached" THEN TRUE ELSE dirty[o]]
    /\ polled' = [o \in Observers |-> 0]
    /\ UNCHANGED <<mem_len, payload, watcher, ret, last, late>>

\* No handle of an earlier publisher is left, and no guard of the lock that
\* RwLock::new is about to initialise is alive.
MayCreate == watched.st \in {"none", "dropped"} /\ CanLock

\* Watched::new_in_shared (lib.rs): no capacity check
Watched_new_in_shared ==
    /\ MayCreate
    /\ WatchedCreated

\* Watched::new_from_mem, as examples/watched.rs calls it: the Shared handle
\* through Shared::new_from_mem, whose assertion panics on a small region,
\* then the Tick reset.
Watched_new_from_mem ==
    /\ MayCreate
    /\ IF Shared_from_mem(mem_len)
       THEN WatchedCreated
       ELSE /\ watched' = [watched EXCEPT !.st = "panicked"]
            /\ UNCHANGED <<mem_len, tick, payload, lock_w, lock_r, watcher, ret, hist>>

\* Watched::write, line 68: self.lock.lock()
Watched_write_lock(v) ==
    /\ watched.st = "alive" /\ watched.pc = "idle"
    /\ CanLock
    /\ lock_w' = TRUE
    /\ watched' = [watched EXCEPT !.pc = "copy", !.val = v, !.idx = 1]
    /\ UNCHANGED <<mem_len, tick, payload, lock_r, watcher, ret, hist>>

\* faulty variant: only the first byte of the value is stored
Watched_write_copy_short ==
    /\ watched.pc = "copy"
    /\ payload' = [payload EXCEPT ![watched.idx] = ValueBytes(watched.val)[watched.idx]]
    /\ watched' = [watched EXCEPT !.pc = "tick", !.idx = 0]
    /\ UNCHANGED <<mem_len, tick, lock_w, lock_r, watcher, ret, hist>>

\* faulty variant: the lock is released when the last byte is in place,
\* before the Tick is incremented
Watched_write_copy_release ==
    /\ watched.pc = "copy"
    /\ payload' = [payload EXCEPT ![watched.idx] = ValueBytes(watched.val)[watched.idx]]
    /\ lock_w' = (watched.idx # PayloadLen)
    /\ watched' = IF watched.idx = PayloadLen
                  THEN [watched EXCEPT !.pc = "tick", !.idx = 0]
                  ELSE [watched EXCEPT !.idx = watched.idx + 1]
    /\ UNCHANGED <<mem_len, tick, lock_r, watcher, ret, hist>>

\* Watched::write, line 73: *val = value, one byte of it
Watched_write_copy ==
    /\ watched.pc = "copy"
    /\ payload' = [payload EXCEPT ![watched.idx] = ValueBytes(watched.val)[watched.idx]]
    /\ watched' = IF watched.idx = PayloadLen
                  THEN [watched EXCEPT !.pc = "tick", !.idx = 0]
                  ELSE [watched EXCEPT !.idx = watched.idx + 1]
    /\ UNCHANGED <<mem_len, tick, lock_w, lock_r, watcher, ret, hist>>

\* faulty variant: the write leaves the Tick as it is
Watched_write_tick_skip ==
    /\ watched.pc = "tick"
    /\ tick' = tick
    /\ watched' = [watched EXCEPT !.pc = "unlock"]
    /\ nticks' = nticks + 1
    /\ UNCHANGED <<mem_len, payload, lock_w, lock_r, watcher, ret, ncreated, last, polled, dirty, late>>

\* Watched::write, line 75: self.tick.fetch_add(TICK)
Watched_write_tick ==
    /\ watched.pc = "tick"
    /\ tick' = Tick_tick(tick)
    /\ watched' = [watched EXCEPT !.pc = "unlock"]
    /\ nticks' = nticks + 1
    /\ UNCHANGED <<mem_len, payload, lock_w, lock_r, watcher, ret, ncreated, last, polled, dirty, late>>

\* Watched::write, line 76: the guard goes out of scope
Watched_write_unlock ==
    /\ watched.pc = "unlock"
    /\ lock_w' = FALSE
    /\ watched' = [watched EXCEPT !.pc = "idle", !.val = 0]
    /\ last' = watched.val
    /\ UNCHANGED <<mem_len, tick, payload, lock_r, watcher, ret, ncreated, nticks, polled, dirty, late>>

\* Watched::write, line 73 with a value type whose drop panics: the old
\* value's drop unwinds out of the assignment after the new bytes are in
\* place; line 75 is skipped and the guard is dropped by the unwinding
Watched_write_unwind ==
    /\ watched.pc = "tick"
    /\ lock_w' = FALSE
    /\ watched' = [watched EXCEPT !.pc = "idle", !.val = 0]
    /\ UNCHANGED <<mem_len, tick, payload, lock_r, watcher, ret, hist>>

\* Dropping the publisher handle calls Tick::close: try_get().unwrap() ...
Watched_drop_load ==
    /\ watched.st = "alive" /\ watched.pc = "idle"
    /\ watched' = IF Tick_try_get(tick) = {}
                  THEN [watched EXCEPT !.st = "panicked"]
                  ELSE [watched EXCEPT !.pc = "close",
                                       !.val = CHOOSE b \in Tick_try_get(tick) : TRUE]
    /\ UNCHANGED <<mem_len, tick, payload, lock_w, lock_r, watcher, ret, hist>>

\* ... and store(val | 1)
Watched_drop_store ==
    /\ watched.pc = "close"
    /\ tick' = Tick_close(watched.val)
    /\ watched' = [watched EXCEPT !.st = "dropped", !.pc = "idle", !.val = 0]
    /\ dirty' = [o \in Observers |-> IF watcher[o].st = "attached" THEN TRUE ELSE dirty[o]]
    /\ UNCHANGED <<mem_len, payload, lock_w, lock_r, watcher, ret, ncreated, nticks, last, polled, late>>

(* ------------------------- Watcher (observer) -------------------------- *)

\* versions the Tick can tell apart: bits 1-7
Versions == U8 \div TICK

\* history: the Tick increments since observer o last loaded the Tick
Since(o) == nticks - polled[o]

SinceClass(o) ==
    IF Since(o) = 0 THEN "zero"
    ELSE IF Since(o) % Versions = 0 THEN "wrap" ELSE "other"

\* faulty variant: the handle starts from the shared Tick, not from 0
WatcherAttached_synced(o) ==
    /\ watcher' = [watcher EXCEPT ![o] = [NoWatcher EXCEPT !.st = "attached", !.tick = tick]]
    /\ polled' = [polled EXCEPT ![o] = 0]
    /\ dirty' = [dirty EXCEPT ![o] = Closed(tick) \/ ncreated > 1]
    /\ late' = [late EXCEPT ![o] = Closed(tick)]
    /\ UNCHANGED <<mem_len, tick, payload, lock_w, lock_r, watched, ret, ncreated, nticks, last>>

\* Attaching needs a lock that a publisher has initialised.
MayAttach(o) == watcher[o].st = "none" /\ watched.st \in {"alive", "dropped"}

\* The handle Watcher::new_in_shared returns: tick: 0
WatcherAttached(o) ==
    /\ watcher' = [watcher EXCEPT ![o] = [NoWatcher EXCEPT !.st = "attached"]]
    /\ polled' = [polled EXCEPT ![o] = 0]
    /\ dirty' = [dirty EXCEPT ![o] = Closed(tick) \/ ncreated > 1]
    /\ late' = [late EXCEPT ![o] = Closed(tick)]
    /\ UNCHANGED <<mem_len, tick, payload, lock_w, lock_r, watched, ret, ncreated, nticks, last>>

\* Watcher::new_in_shared (lib.rs): no capacity check, RwLock::from_existing
Watcher_new_in_shared(o) ==
    /\ MayAttach(o)
    /\ WatcherAttached(o)

\* Watcher::new_from_mem, as examples/watcher.rs calls it: the Shared handle
\* through Shared::exist_from_mem
Watcher_new_from_mem(o) ==
    /\ MayAttach(o)
    /\ IF Shared_from_mem(mem_len)
       THEN WatcherAttached(o)
       ELSE /\ watcher' = [watcher EXCEPT ![o].st = "panicked"]
            /\ UNCHANGED <<mem_len, tick, payload, lock_w, lock_r, watched, ret, hist>>

\* faulty variant: the loaded value is not stored into self.tick
Watcher_has_changed_norecord(o) ==
    /\ watcher[o].st = "attached" /\ watcher[o].pc = "idle"
    /\ ret' = [ret EXCEPT ![o] = HasChangedRet(tick # watcher[o].tick, SinceClass(o), dirty[o])]
    /\ polled' = [polled EXCEPT ![o] = nticks]
    /\ dirty' = [dirty EXCEPT ![o] = FALSE]
    /\ UNCHANGED <<mem_len, tick, payload, lock_w, lock_r, watched, watcher, ncreated, nticks, last, late>>

\* faulty variant: the poll goes through the lock like a read does
Watcher_has_changed_locked(o) ==
    /\ watcher[o].st = "attached" /\ watcher[o].pc = "idle"
    /\ CanRLock
    /\ IF tick # watcher[o].tick
       THEN /\ watcher' = [watcher EXCEPT ![o].tick = tick]
            /\ ret' = [ret EXCEPT ![o] = HasChangedRet(TRUE, SinceClass(o), dirty[o])]
       ELSE /\ watcher' = watcher
            /\ ret' = [ret EXCEPT ![o] = HasChangedRet(FALSE, SinceClass(o), dirty[o])]
    /\ polled' = [polled EXCEPT ![o] = nticks]
    /\ dirty' = [dirty EXCEPT ![o] = FALSE]
    /\ UNCHANGED <<mem_len, tick, payload, lock_w, lock_r, watched, ncreated, nticks, last, late>>

\* Watcher::has_changed: one atomic load, compared with self.tick
Watcher_has_changed(o) ==
    /\ watcher[o].st = "attached" /\ watcher[o].pc = "idle"
    /\ LET tick_new == tick IN
       IF tick_new # watcher[o].tick
       THEN /\ watcher' = [watcher EXCEPT ![o].tick = tick_new]
            /\ ret' = [ret EXCEPT ![o] = HasChangedRet(TRUE, SinceClass(o), dirty[o])]
       ELSE /\ watcher' = watcher
            /\ ret' = [ret EXCEPT ![o] = HasChangedRet(FALSE, SinceClass(o), dirty[o])]
    /\ polled' = [polled EXCEPT ![o] = nticks]
    /\ dirty' = [dirty EXCEPT ![o] = FALSE]
    /\ UNCHANGED <<mem_len, tick, payload, lock_w, lock_r, watched, ncreated, nticks, last, late>>

\* Watcher::read, line 125: self.lock.rlock()
Watcher_read_rlock(o) ==
    /\ watcher[o].st = "attached" /\ watcher[o].pc = "idle"
    /\ CanRLock
    /\ lock_r' = lock_r \cup {o}
    /\ watcher' = [watcher EXCEPT ![o].pc = "func", ![o].idx = 1, ![o].buf = <<>>]
    /\ ret' = [ret EXCEPT ![o] = NoRet]
    /\ UNCHANGED <<mem_len, tick, payload, lock_w, watched, hist>>

\* faulty variant: the read takes the byte it looks at out of the payload
Watcher_read_func_take(o) ==
    /\ watcher[o].pc = "func" /\ watcher[o].idx <= PayloadLen
    /\ watcher' = [watcher EXCEPT ![o].buf = Append(@, payload[watcher[o].idx]),
                                  ![o].idx = @ + 1]
    /\ payload' = [payload EXCEPT ![watcher[o].idx] = 0]
    /\ UNCHANGED <<mem_len, tick, lock_w, lock_r, watched, ret, hist>>

\* Watcher::read, line 127: func(val), the closure looking at one byte of *val
Watcher_read_func(o) ==
    /\ watcher[o].pc = "func" /\ watcher[o].idx <= PayloadLen
    /\ watcher' = [watcher EXCEPT ![o].buf = Append(@, payload[watcher[o].idx]),
                                  ![o].idx = @ + 1]
    /\ UNCHANGED <<mem_len, tick, payload, lock_w, lock_r, watched, ret, hist>>

\* Watcher::read, line 128: the closure's result is returned, the guard dropped
Watcher_read_return(o) ==
    /\ watcher[o].pc = "func" /\ watcher[o].idx > PayloadLen
    /\ lock_r' = lock_r \ {o}
    /\ ret' = [ret EXCEPT ![o] = ReadRet]
    /\ watcher' = [watcher EXCEPT ![o].pc = "idle", ![o].idx = 0, ![o].buf = <<>>]
    /\ UNCHANGED <<mem_len, tick, payload, lock_w, watched, hist>>

\* faulty variant: the unwinding leaves the shared lock held
Watcher_read_unwind_leak(o) ==
    /\ watcher[o].pc = "func"
    /\ ret' = [ret EXCEPT ![o] = PanicRet]
    /\ watcher' = [watcher EXCEPT ![o].pc = "idle", ![o].idx = 0, ![o].buf = <<>>]
    /\ UNCHANGED <<mem_len, tick, payload, lock_w, lock_r, watched, hist>>

\* Watcher::read, line 127 with a closure that panics: the guard of line 125
\* is dropped by the unwinding
Watcher_read_unwind(o) ==
    /\ watcher[o].pc = "func"
    /\ lock_r' = lock_r \ {o}
    /\ ret' = [ret EXCEPT ![o] = PanicRet]
    /\ watcher' = [watcher EXCEPT ![o].pc = "idle", ![o].idx = 0, ![o].buf = <<>>]
    /\ UNCHANGED <<mem_len, tick, payload, lock_w, watched, hist>>

(* --------------------------- specifications ---------------------------- *)

\* the publisher's steps: at most `creates` handles one after the other,
\* at most `writes` writes through each, values drawn from vals
WatchedNext(creates, writes, vals) ==
    \/ ncreated < creates /\ Watched_new_in_shared
    \/ ncreated < creates /\ Watched_new_from_mem
    \/ \E v \in vals : nticks < writes /\ Watched_write_lock(v)
    \/ Watched_write_copy
    \/ Watched_write_tick
    \/ Watched_write_unlock
    \/ Watched_drop_load
    \/ Watched_drop_store

\* an observer's steps
WatcherNext(o) ==
    \/ Watcher_new_in_shared(o)
    \/ Watcher_new_from_mem(o)
    \/ Watcher_has_changed(o)
    \/ Watcher_read_rlock(o)
    \/ Watcher_read_func(o)
    \/ Watcher_read_return(o)

\* One publisher handle from construction to drop, and the observers.
Next ==
    \/ WatchedNext(1, MaxWrites, Values)
    \/ \E o \in Observers : WatcherNext(o)

Spec == Init /\ [][Next]_vars

\* Publisher handles created one after the other over the same region, and
\* one observer that stays attached across them.
NextLife ==
    \/ WatchedNext(MaxCreates, MaxWrites, Values)
    \/ WatcherNext(1)

SpecLife == Init /\ [][NextLife]_vars

\* A long run of writes of one publisher, polled by one observer.
NextWrap ==
    \/ ncreated < 1 /\ Watched_new_in_shared
    \/ nticks < WrapWrites /\ Watched_write_lock(1)
    \/ Watched_write_copy
    \/ Watched_write_tick
    \/ Watched_write_unlock
    \/ Watcher_new_in_shared(1)
    \/ Watcher_has_changed(1)

SpecWrap == Init /\ [][NextWrap]_vars

\* Construction of the handles over regions of every capacity up to MaxMem.
InitCap == \E n \in 0..MaxMem : InitRegion(n)

NextCap ==
    \/ ncreated < 1 /\ Watched_new_in_shared
    \/ ncreated < 1 /\ Watched_new_from_mem
    \/ Watcher_new_in_shared(1)
    \/ Watcher_new_from_mem(1)

SpecCap == InitCap /\ [][NextCap]_vars

(* ------------------------------- claims -------------------------------- *)

\* the closure of observer o has looked at the whole payload
FuncDone(o) == watcher[o].pc = "func" /\ watcher[o].idx > PayloadLen

\* history: the writes of the current publisher that released the lock
Completed == IF watched.pc = "unlock" THEN nticks - 1 ELSE nticks

\* the payload as the last write that released the lock left it
Committed == IF last = 0 THEN ZeroPayload ELSE ValueBytes(last)

\* the lock discipline: a write in progress holds the lock alone, a closure
\* runs only under the shared lock
LockDiscipline ==
    /\ ~(lock_w /\ lock_r # {})
    /\ watched.pc \in {"copy", "tick", "unlock"} => lock_w
    /\ \A o \in Observers : watcher[o].pc = "func" => o \in lock_r

\* C1, as stated: under every interleaving of the publisher's writes with the
\* observers' reads, the lock discipline holds and the payload a read closure
\* has seen is the complete value of exactly one write.
C1_ClosureSeesOneWrite ==
    /\ LockDiscipline
    /\ \A o \in Observers :
         FuncDone(o) => \E v \in Values : watcher[o].buf = ValueBytes(v)

\* C1, amended: the lock discipline holds and what a read closure sees is
\* never a mix: every byte it has seen so far is the byte of the one payload
\* that stood when it took the lock, which is the complete value of one
\* write, or the region's initial bytes when no write had completed.
C1_ClosureSeesWholePayload ==
    /\ LockDiscipline
    /\ \A o \in Observers :
         watcher[o].pc = "func" =>
           /\ \A i \in 1..Len(watcher[o].buf) : watcher[o].buf[i] = Committed[i]
           /\ FuncDone(o) =>
                \/ \E v \in Values : watcher[o].buf = ValueBytes(v)
                \/ Completed = 0 /\ watcher[o].buf = ZeroPayload

\* C1 witness: a closure has seen the whole value of the second write while
\* the other observer reads too
C1_Witness ==
    /\ FuncDone(1) /\ watcher[1].buf = ValueBytes(2)
    /\ nticks = 2 /\ lock_r = Observers

\* C2: a read that takes the shared lock once a write has released the
\* exclusive lock sees the complete payload of the latest write that
\* released it (that write's or a later one's, never an earlier one's); and
\* after two completed writes a poll returns true and the read that follows
\* sees exactly the second value.
C2_ReadSeesLatestWrite ==
    /\ [](\A o \in Observers :
            FuncDone(o) /\ Completed >= 1 => watcher[o].buf = ValueBytes(last))
    /\ [][\A o \in Observers :
            Watcher_has_changed(o) /\ ~dirty[o] /\ Since(o) = 2
              => ret'[o].val = TRUE /\ watcher'[o].tick = tick]_vars

\* C2 witness: two writes completed, the observer polled once (true) and its
\* closure has seen the value of the second write
C2_Witness ==
    /\ FuncDone(1) /\ watcher[1].buf = ValueBytes(1) /\ last = 1
    /\ Completed = 2 /\ polled[1] = 2 /\ watcher[1].tick = 2 * TICK

\* C3: when an observer has loaded the version a write's increment produced,
\* a read it makes afterwards sees the payload of a completed write that is
\* no older than that write, also when further writes race with it.
C3_ReadNotOlderThanPolled ==
    \A o \in Observers :
        FuncDone(o) /\ polled[o] >= 1 =>
            /\ Completed >= polled[o]
            /\ watcher[o].buf = ValueBytes(last)

\* C3 witness: the observer polled after the first write and its closure has
\* seen the second write's value (a newer one)
C3_Witness ==
    /\ FuncDone(1) /\ polled[1] = 1 /\ Completed = 2
    /\ watcher[1].buf = ValueBytes(2)

\* C4: once the publisher handle is destroyed, every has_changed() fails
\* with "gone" instead of returning true or false.
C4_GoneAfterDrop ==
    [][\A o \in Observers :
         watched.st = "dropped" /\ Watcher_has_changed(o) => ret'[o].op = "gone"]_vars

\* C5: attaching to a closed region succeeds and leaves the Tick unchanged,
\* and every later has_changed and read of that Watcher reports "gone".
C5_LateWatcherGone ==
    [][\A o \in Observers :
         /\ Closed(tick) /\ (Watcher_new_in_shared(o) \/ Watcher_new_from_mem(o))
              => watcher'[o].st = "attached" /\ tick' = tick
         /\ late[o] /\ Closed(tick) /\ (Watcher_has_changed(o) \/ Watcher_read_return(o))
              => ret'[o].op = "gone"]_vars

DropStep == watched.pc = "close" /\ watched'.st = "dropped"

\* the step that constructs a publisher handle
CreateStep == watched.st \in {"none", "dropped"} /\ watched'.st = "alive"

C8_PollTwice ==
    [][\A o \in Observers : Watcher_has_changed(o) =>
         /\ tick # watcher[o].tick
              => ret'[o].val = TRUE /\ watcher'[o].tick = tick
         /\ ret[o].op = "has_changed" /\ Since(o) = 0 /\ ~dirty[o]
              => ret'[o].val = FALSE /\ watcher' = watcher]_vars

\* C8 witness: the observer polled twice after a write; the second poll
\* found nothing new and returned false
C8_Witness ==
    /\ ret[1] = HasChangedRet(FALSE, "zero", FALSE)
    /\ polled[1] = 1 /\ watcher[1].tick = TICK /\ tick = TICK

\* C9: a poll returns false when the writes since the observer's previous
\* load of the Tick are a positive multiple of 128, and true for every other
\* positive number of writes.
C9_VersionWraps ==
    [][Watcher_has_changed(1) /\ ~dirty[1] /\ Since(1) > 0
         => ret'[1].val = (Since(1) % Versions # 0)]_vars

\* C9 witness: a poll 128 writes after the previous one returned false
C9_Witness ==
    /\ ret[1] = HasChangedRet(FALSE, "wrap", FALSE)
    /\ nticks = Versions /\ last = 1

\* C10: construction of a publisher handle succeeds when the region holds
\* the Tick, the lock metadata and the payload, and fails on every smaller
\* region.
C10_CapacityChecked ==
    /\ watched.st = "alive" => mem_len >= Needed
    /\ watched.st = "panicked" => mem_len < Needed

\* The scenario of test::works (lib.rs:154-172): the observers attach only
\* once the publisher has completed a write.
NextLate ==
    \/ WatchedNext(1, MaxWrites, Values)
    \/ \E o \in Observers :
         \/ Completed >= 1 /\ Watcher_new_in_shared(o)
         \/ Completed >= 1 /\ Watcher_new_from_mem(o)
         \/ Watcher_has_changed(o)
         \/ Watcher_read_rlock(o)
         \/ Watcher_read_func(o)
         \/ Watcher_read_return(o)

SpecLate == Init /\ [][NextLate]_vars

\* C11: for an observer that attached after the publisher completed one or
\* more writes (fewer than 128), while the region is not closed its first
\* has_changed() returns true, and the closure of its read is handed exactly
\* the value of the most recent completed write; read returns the closure's
\* result and gives the lock back.  (Here no observer is attached before
\* the first increment, so polled[o] = 0 tells that o has not polled yet.)
C11_LateObserverSeesWrite ==
    /\ [](\A o \in Observers :
            FuncDone(o) /\ ~Closed(tick) => watcher[o].buf = ValueBytes(last))
    /\ [][\A o \in Observers :
            /\ Watcher_has_changed(o) /\ polled[o] = 0 /\ ~Closed(tick)
                 => ret'[o].val = TRUE /\ watcher'[o].tick = tick
            /\ Watcher_read_return(o)
                 => ret'[o] = ReadRet /\ o \notin lock_r']_vars

\* C11 witness: the observer attached after the first write, polled (its
\* handle holds the Tick of that write) and its closure has seen the value
C11_Witness ==
    /\ FuncDone(1) /\ watcher[1].buf = ValueBytes(last) /\ last = 2
    /\ nticks = 1 /\ polled[1] = 1 /\ watcher[1].tick = TICK

\* C12: the observers keep independent last seen versions: a poll changes
\* no other observer's handle, and after one write every observer's poll
\* returns true whatever the others did; closures that have seen the payload
\* at the same time have seen the identical value; an idle observer can take
\* the shared lock whenever no write holds it, also while others read; and
\* whoever holds the lock can always take its next step, so nobody waits
\* for a holder that cannot go on.
C12_IndependentObservers ==
    /\ [](/\ \A o, p \in Observers :
               FuncDone(o) /\ FuncDone(p) => watcher[o].buf = watcher[p].buf
          /\ \A o \in Observers :
               watcher[o].st = "attached" /\ watcher[o].pc = "idle" /\ ~lock_w
                 => ENABLED Watcher_read_rlock(o)
          /\ \A o \in lock_r :
               ENABLED (Watcher_read_func(o) \/ Watcher_read_return(o))
          /\ lock_w =>
               ENABLED (Watched_write_copy \/ Watched_write_tick \/ Watched_write_unlock))
    /\ [][\A o \in Observers :
            Watcher_has_changed(o) =>
              /\ \A p \in Observers \ {o} : watcher'[p] = watcher[p] /\ ret'[p] = ret[p]
              /\ Since(o) = 1 /\ ~dirty[o] => ret'[o].val = TRUE]_vars

\* C12 witness: after one write both observers polled true (each handle
\* holds the new Tick) and both closures, under the shared lock at the same
\* time, have seen the same value
C12_Witness ==
    /\ nticks = 1 /\ last = 1 /\ lock_r = {1, 2}
    /\ \A o \in {1, 2} :
         /\ FuncDone(o) /\ watcher[o].buf = ValueBytes(1)
         /\ polled[o] = 1 /\ watcher[o].tick = TICK

\* C13: has_changed never blocks: an attached observer that is not inside a
\* read can complete a poll in every state, also while the publisher holds
\* the exclusive lock or other observers hold the shared lock, and the poll
\* is one step that leaves the lock as it was.
C13_PollNeverBlocks ==
    /\ [](\A o \in Observers :
            watcher[o].st = "attached" /\ watcher[o].pc = "idle"
              => ENABLED Watcher_has_changed(o))
    /\ [][\A o \in Observers :
            Watcher_has_changed(o) =>
              /\ lock_w' = lock_w /\ lock_r' = lock_r
              /\ watcher'[o].pc = "idle" /\ ret'[o].op = "has_changed"]_vars

\* C13 witness: observer 1 holds the result of a poll and can poll again
\* while the publisher is in the middle of its copy under the exclusive lock
C13_Witness ==
    /\ lock_w /\ watched.pc = "copy" /\ watched.idx = 2
    /\ watcher[1].st = "attached" /\ watcher[1].pc = "idle"
    /\ ret[1].op = "has_changed"
    /\ ENABLED Watcher_has_changed(1)

\* Writes and reads whose value type or closure may panic: every way out of
\* Watched::write and Watcher::read, without the polls.
NextUnwind ==
    \/ WatchedNext(1, MaxWrites, Values)
    \/ Watched_write_unwind
    \/ \E o \in Observers :
         \/ Watcher_new_in_shared(o)
         \/ Watcher_new_from_mem(o)
         \/ Watcher_read_rlock(o)
         \/ Watcher_read_func(o)
         \/ Watcher_read_return(o)
         \/ Watcher_read_unwind(o)

SpecUnwind == Init /\ [][NextUnwind]_vars

\* C14: the lock is released on every way out: the step that ends a write
\* (return or unwinding) leaves the exclusive lock free and the step that
\* ends a read leaves the observer out of the shared holders; the lock is
\* held exactly by the writes and reads in progress, so it is free when none
\* is; a write can take the lock as soon as nobody holds it and a read as
\* soon as no write holds it, and every holder can take its next step.
C14_LockReleased ==
    /\ [](/\ lock_w <=> watched.pc \in {"copy", "tick", "unlock"}
          /\ lock_r = {o \in Observers : watcher[o].pc = "func"}
          /\ watched.pc \in {"idle", "close"} /\ (\A o \in Observers : watcher[o].pc = "idle")
               => ~lock_w /\ lock_r = {}
          /\ watched.st = "alive" /\ watched.pc = "idle" /\ lock_r = {}
               => \A v \in Values : ENABLED Watched_write_lock(v)
          /\ \A o \in Observers :
               watcher[o].st = "attached" /\ watcher[o].pc = "idle" /\ ~lock_w
                 => ENABLED Watcher_read_rlock(o)
          /\ \A o \in lock_r : ENABLED Watcher_read_return(o) \/ ENABLED Watcher_read_func(o)
          /\ lock_w => \/ ENABLED Watched_write_copy
                       \/ ENABLED Watched_write_tick
                       \/ ENABLED Watched_write_unlock)
    /\ [][/\ Watched_write_unlock \/ Watched_write_unwind
               => ~lock_w' /\ watched'.pc = "idle"
          /\ \A o \in Observers :
               Watcher_read_return(o) \/ Watcher_read_unwind(o)
                 => o \notin lock_r' /\ watcher'[o].pc = "idle"]_vars

\* C14 witness: a write has unwound (its bytes are in the payload, the Tick
\* was never incremented) and a read of observer 1 has unwound, and the lock
\* is free
C14_Witness ==
    /\ payload = ValueBytes(1) /\ nticks = 0 /\ watched.pc = "idle"
    /\ ret[1] = PanicRet /\ watcher[1].pc = "idle"
    /\ ~lock_w /\ lock_r = {}

\* One publisher alone, from construction over a long run of writes to drop.
NextOrder == WatchedNext(1, WrapWrites, Values)

SpecOrder == Init /\ [][NextOrder]_vars

\* C15: a write acquires the lock, overwrites the payload, adds TICK to the
\* Tick and releases the lock, in this order: the payload is overwritten
\* only under the lock and with the Tick of the writes completed before, and
\* the Tick is incremented under the lock once the whole value is in place.
\* So whenever the exclusive lock is not held and the Tick is not closed, the
\* Tick is even and is 2 * (completed writes) mod 256, and the payload is
\* the value of the last completed write.
C15_WriteOrder ==
    /\ watched.pc \in {"copy", "tick", "unlock"} => lock_w
    /\ watched.pc \in {"copy", "tick"} => tick = (TICK * Completed) % U8
    /\ watched.pc \in {"tick", "unlock"} => payload = ValueBytes(watched.val)
    /\ watched.pc = "unlock" => tick = (TICK * (Completed + 1)) % U8
    /\ ~lock_w /\ ~Closed(tick) =>
         /\ tick % 2 = 0
         /\ tick = (TICK * Completed) % U8
         /\ payload = Committed

\* C15 witness: 129 writes have completed, the last one of value 2; the lock
\* is free and the Tick byte is 258 mod 256
C15_Witness ==
    /\ Completed = Versions + 1 /\ last = 2 /\ watched.st = "alive"
    /\ ~lock_w /\ ~Closed(tick) /\ tick = TICK /\ payload = ValueBytes(2)

\* the areas of layout lay: the Tick byte, the lock metadata, the payload
TickArea(lay) == lay.tick .. lay.tick + AtomicSize - 1
LockArea(lay) == lay.lock .. lay.lock + LockSize - 1
DataArea(lay) == lay.data .. lay.data + PayloadLen - 1

\* C16: whenever a handle has been constructed over the region, the layout
\* of every constructor that succeeds on the region's capacity has the Tick
\* in the byte at offset 0, the lock metadata at offset 1, the payload
\* right behind the lock metadata, the three areas pairwise disjoint and
\* inside the capacity; the layouts of the constructors are the same.
C16_Layout ==
    watched.st = "alive" \/ (\E o \in Observers : watcher[o].st = "attached") =>
      /\ \A lay \in {Watched_layout} \cup
                    (IF Shared_from_mem(mem_len) THEN {Shared_layout} ELSE {}) :
           /\ lay.tick = 0 /\ lay.lock = 1 /\ lay.data = 1 + LockSize
           /\ TickArea(lay) \cap LockArea(lay) = {}
           /\ TickArea(lay) \cap DataArea(lay) = {}
           /\ LockArea(lay) \cap DataArea(lay) = {}
           /\ (TickArea(lay) \cup LockArea(lay) \cup DataArea(lay)) \subseteq 0 .. mem_len - 1
      /\ Shared_layout = Watched_layout

\* C17: constructing a publisher handle stores 0 into the Tick whatever the
\* byte held before, the closed bit and the version an earlier publisher
\* left included, and initialises the lock afresh: nobody holds it.
C17_CreateResetsTick ==
    [][(Watched_new_in_shared \/ Watched_new_from_mem) /\ watched'.st = "alive"
         => tick' = 0 /\ ~lock_w' /\ lock_r' = {}]_vars

\* C17 witness: a second publisher handle has just been constructed over a
\* region whose Tick the first one left closed with a non-zero version (an
\* observer polled it in between)
C17_Witness ==
    /\ ncreated = 2 /\ watched.st = "alive" /\ nticks = 0 /\ tick = 0
    /\ last # 0 /\ watcher[1].tick = 2 * TICK + 1

\* a step that changes the handle of observer o: attaching and every step
\* of a read do, and no step of the publisher or of another observer does
WatcherMoved(o) == watcher'[o] # watcher[o]

\* what a step of observer o leaves alone: the Tick, the payload, the
\* region, the publisher, the exclusive lock, the other observers' handles
\* and their places among the shared holders
WatcherFrame(o) ==
    /\ tick' = tick /\ payload' = payload /\ mem_len' = mem_len
    /\ watched' = watched /\ lock_w' = lock_w
    /\ lock_r' \ {o} = lock_r \ {o}
    /\ \A p \in Observers \ {o} : watcher'[p] = watcher[p]

\* C18: no operation of an observer changes the shared state: attaching,
\* has_changed and read leave the Tick, the payload and the publisher alone;
\* an attached handle starts with last seen version 0; has_changed changes
\* nothing but the last seen version of its own handle and leaves the lock
\* alone; read leaves the last seen version alone and changes of the lock
\* only whether this observer is among the shared holders.
C18_ObserverChangesNothingShared ==
    [][\A o \in Observers :
         /\ Watcher_has_changed(o) =>
              /\ WatcherFrame(o) /\ lock_r' = lock_r
              /\ watcher'[o] = [watcher[o] EXCEPT !.tick = tick]
         /\ WatcherMoved(o) => WatcherFrame(o)
         /\ watcher[o].st # "attached" /\ watcher'[o].st = "attached"
              => watcher'[o].tick = 0 /\ lock_r' = lock_r
         /\ watcher[o].pc = "func" \/ watcher'[o].pc = "func"
              => watcher'[o].tick = watcher[o].tick]_vars

\* C18 witness: observer 1 has attached, polled and read after the second
\* write, and the Tick, the payload and the lock are as the publisher left
\* them
C18_Witness ==
    /\ ret[1] = ReadRet /\ polled[1] = 2 /\ watcher[1].tick = 2 * TICK
    /\ tick = 2 * TICK /\ payload = ValueBytes(last) /\ last = 2
    /\ ~lock_w /\ lock_r = {} /\ watched.st = "alive"

\* The Tick alone under callers that share it through &self: tick() calls
\* of one holder, close() calls of another, whose position is watched.pc.

\* Tick::tick: fetch_add(TICK), one atomic step
Tick_tick_call ==
    /\ nticks < WrapWrites
    /\ tick' = Tick_tick(tick)
    /\ nticks' = nticks + 1
    /\ UNCHANGED <<mem_len, payload, lock_w, lock_r, watched, watcher, ret,
                   ncreated, last, polled, dirty, late>>

\* Tick::close, line 32: self.try_get().unwrap()
Tick_close_load ==
    /\ watched.st \in {"none", "dropped"} /\ watched.pc = "idle"
    /\ watched' = IF Tick_try_get(tick) = {}
                  THEN [watched EXCEPT !.st = "panicked"]
                  ELSE [watched EXCEPT !.pc = "close",
                                       !.val = CHOOSE b \in Tick_try_get(tick) : TRUE]
    /\ UNCHANGED <<mem_len, tick, payload, lock_w, lock_r, watcher, ret, hist>>

\* Tick::close, line 33: self.store(val | 1)
Tick_close_store ==
    /\ watched.pc = "close"
    /\ tick' = Tick_close(watched.val)
    /\ watched' = [watched EXCEPT !.st = "dropped", !.pc = "idle", !.val = 0]
    /\ UNCHANGED <<mem_len, payload, lock_w, lock_r, watcher, ret, hist>>

NextTick ==
    \/ Tick_tick_call
    \/ Tick_close_load
    \/ Tick_close_store

SpecTick == Init /\ [][NextTick]_vars

\* C19: close() on a closed Tick panics and leaves the byte as it is; on a
\* Tick that is not closed it sets bit 0 and keeps bits 1-7, its read and
\* its store being one atomic step: no tick() increment around it is lost,
\* the version is always that of the increments made.
C19_CloseAtomic ==
    /\ [](Version(tick) = nticks % Versions)
    /\ [][/\ Tick_close_load /\ Closed(tick)
               => watched'.st = "panicked" /\ tick' = tick
          /\ Tick_close_store
               => Closed(tick') /\ Version(tick') = Version(tick)]_vars

\* C20: over a region whose Tick is 0 and not closed and whose publisher
\* has not incremented it yet, every poll returns false, also while the
\* first write is copying; the first poll of an observer after the first
\* increment returns true, also before that write has released the lock.
C20_FirstWriteSeen ==
    [][\A o \in Observers :
         /\ Watcher_has_changed(o) /\ nticks = 0 /\ ~Closed(tick)
              => ret'[o].val = FALSE /\ watcher'[o].tick = 0
         /\ Watcher_has_changed(o) /\ polled[o] = 0 /\ nticks >= 1
              => ret'[o].val = TRUE /\ watcher'[o].tick = tick]_vars

\* C20 witness: observer 1 polled false while the first write was copying,
\* and observer 2 polled true once that write had incremented the Tick,
\* before the lock was released
C20_Witness ==
    /\ nticks = 1 /\ watched.pc = "unlock" /\ lock_w
    /\ ret[1] = HasChangedRet(FALSE, "zero", FALSE) /\ watcher[1].tick = 0
    /\ ret[2] = HasChangedRet(TRUE, "other", FALSE) /\ watcher[2].tick = TICK

====
